---- MODULE Spec2Model ----
(***************************************************************************)
(* Hash_generator.py: a passphrase is hashed by one of two key-derivation  *)
(* functions under a fixed salt, salt || raw is base64url-encoded, the     *)
(* derivation is repeated three times and compared, and the agreed string  *)
(* is cut to a size category.  main() collects the three inputs, runs the  *)
(* derivation inside try/except, and the script loops on ask_run_again().  *)
(*                                                                         *)
(* Python values are modelled as follows: a str or bytes value is a        *)
(* sequence (of one-character strings, of integers 0..255); an optional    *)
(* value is None == <<>> or Some(v) == <<v>>; a call's outcome is a record *)
(* that either returns a value or raises an exception.                     *)
(***************************************************************************)
EXTENDS Integers, Sequences, FiniteSets

VARIABLES
    hash_secret_raw,  \* "argon2" when the import at lines 14-18 worked, "None" when not
    primitive,        \* "deterministic" | "unreliable": how the KDF libraries behave
    argv_input,       \* the -i/--input option of the command line (None when absent)
    pc,               \* where the script stands
    args_input,       \* args.input, args.encryption, args.size of the running main()
    args_encryption,
    args_size,
    calls,            \* the hasher invocations of the last derivation, in order
    outputs,          \* generate_reliable_password's list `outputs`
    full_pw,          \* generate_password_with_size's `full_pw` (None until it is set)
    result,           \* main's `result` (None until the derivation returned)
    error,            \* the exception the last derivation raised (None if none)
    stdout,           \* what the running main() reported (line 174 or 178), or "Exiting"
    prev              \* history: the previous successful call, kept while the
                      \* running call repeats its passphrase and scheme

vars == <<hash_secret_raw, primitive, argv_input, pc, args_input, args_encryption,
          args_size, calls, outputs, full_pw, result, error, stdout, prev>>

(***************************** bounds **************************************)
\* Passphrases typed or passed on the command line have at most this many characters.
MaxPassLen == 2
\* The size application on its own is tried on texts of at most this many characters.
MaxTextLen == 20

(***************************** Python values *******************************)
None == <<>>
Some(v) == <<v>>
Value(o) == o[1]

Min(a, b) == IF a <= b THEN a ELSE b

\* The characters a passphrase is made of, with their UTF-8 code (all ASCII).
Alphabet == {" ", "a"}
Whitespace == {" "}
CharCode(c) == IF c = " " THEN 32 ELSE 97

RECURSIVE StringsUpTo(_)
StringsUpTo(n) ==
    IF n = 0 THEN {<<>>}
    ELSE LET shorter == StringsUpTo(n - 1)
         IN  shorter \cup {Append(s, c) : s \in {t \in shorter : Len(t) = n - 1}, c \in Alphabet}

Passphrases == StringsUpTo(MaxPassLen)

\* str.strip(): drop leading and trailing whitespace.
RECURSIVE lstrip(_)
lstrip(s) == IF s # <<>> /\ Head(s) \in Whitespace THEN lstrip(Tail(s)) ELSE s
RECURSIVE rstrip(_)
rstrip(s) ==
    IF s # <<>> /\ s[Len(s)] \in Whitespace THEN rstrip(SubSeq(s, 1, Len(s) - 1)) ELSE s
strip(s) == rstrip(lstrip(s))

\* str.encode('utf-8')
encode_utf8(s) == [i \in 1..Len(s) |-> CharCode(s[i])]

\* (a slice that stops one character early)
SliceOneShort(text, length) == SubSeq(text, 1, Min(length, Len(text)) - 1)

\* text[:length]: Python's slice clamps to the length of the text.
Slice(text, length) == SubSeq(text, 1, Min(length, Len(text)))

(***************************** constants ***********************************)
\* SALT = b'Something_[]_ASDF'
SALT == <<83, 111, 109, 101, 116, 104, 105, 110, 103, 95, 91, 93, 95, 65, 83, 68, 70>>

SizeIds == {"short", "small", "medium", "big", "long", "huge", "full"}
SIZE_MAP ==
    [z \in SizeIds |->
        CASE z = "short"  -> Some(16)
          [] z = "small"  -> Some(32)
          [] z = "medium" -> Some(64)
          [] z = "big"    -> Some(128)
          [] z = "long"   -> Some(236)
          [] z = "huge"   -> Some(472)
          [] z = "full"   -> None]

HASH_SCHEMES == [s \in {"interactive", "deep"} |->
                    IF s = "interactive" THEN "PBKDF2-HMAC-SHA256" ELSE "Argon2id"]

PBKDF2_ITERATIONS == 500000
PBKDF2_DKLEN == 512
ARGON2_TIME_COST == 10
ARGON2_MEMORY_COST == 102400
ARGON2_PARALLELISM == 4
ARGON2_HASH_LEN == 512

(***************************** base64 **************************************)
\* The URL-safe base64 alphabet: value v is character B64Alphabet[v + 1].
B64Alphabet ==
    <<"A", "B", "C", "D", "E", "F", "G", "H", "I", "J", "K", "L", "M",
      "N", "O", "P", "Q", "R", "S", "T", "U", "V", "W", "X", "Y", "Z",
      "a", "b", "c", "d", "e", "f", "g", "h", "i", "j", "k", "l", "m",
      "n", "o", "p", "q", "r", "s", "t", "u", "v", "w", "x", "y", "z",
      "0", "1", "2", "3", "4", "5", "6", "7", "8", "9", "-", "_">>

\* (an encoder that leaves the "=" padding out)
urlsafe_b64encode_nopad(data) ==
    LET nb == Len(data)
        ByteAt(i) == IF i <= nb THEN data[i] ELSE 0
        Word(k) == ByteAt(3 * k + 1) * 65536 + ByteAt(3 * k + 2) * 256 + ByteAt(3 * k + 3)
        Sextet(j) ==
            CASE (j - 1) % 4 = 0 -> Word((j - 1) \div 4) \div 262144
              [] (j - 1) % 4 = 1 -> (Word((j - 1) \div 4) \div 4096) % 64
              [] (j - 1) % 4 = 2 -> (Word((j - 1) \div 4) \div 64) % 64
              [] (j - 1) % 4 = 3 -> Word((j - 1) \div 4) % 64
    IN  [j \in 1..((nb * 8 + 5) \div 6) |-> B64Alphabet[Sextet(j) + 1]]

\* base64.urlsafe_b64encode(data).decode('utf-8'): every 3 bytes give 4
\* characters of 6 bits each; a last group of 1 or 2 bytes is filled with zero
\* bits and its unused characters are "=".
urlsafe_b64encode(data) ==
    LET nb == Len(data)
        ByteAt(i) == IF i <= nb THEN data[i] ELSE 0
        Group(j) == (j - 1) \div 4
        Pos(j) == (j - 1) % 4
        Word(k) == ByteAt(3 * k + 1) * 65536 + ByteAt(3 * k + 2) * 256 + ByteAt(3 * k + 3)
        Sextet(j) ==
            CASE Pos(j) = 0 -> Word(Group(j)) \div 262144
              [] Pos(j) = 1 -> (Word(Group(j)) \div 4096) % 64
              [] Pos(j) = 2 -> (Word(Group(j)) \div 64) % 64
              [] Pos(j) = 3 -> Word(Group(j)) % 64
        Padding(j) == \/ Pos(j) = 2 /\ 3 * Group(j) + 2 > nb
                      \/ Pos(j) = 3 /\ 3 * Group(j) + 3 > nb
    IN  [j \in 1..(4 * ((nb + 2) \div 3)) |->
            IF Padding(j) THEN "=" ELSE B64Alphabet[Sextet(j) + 1]]

(***************************** outcomes of a call ***************************)
\* A call returns a value or raises.
Return(v) == [kind |-> "return", value |-> v, exc |-> None]
Raise(e) == [kind |-> "raise", value |-> <<>>, exc |-> Some(e)]

\* The same, with what the derivation has done by then: the hasher
\* invocations, the candidates collected, and full_pw once it is assigned.
Outcome(r, log, outs, full) ==
    [kind |-> r.kind, value |-> r.value, exc |-> r.exc,
     calls |-> log, outputs |-> outs, full_pw |-> full]

RuntimeError(m) == [type |-> "RuntimeError", msg |-> m]
ValueError(m) == [type |-> "ValueError", msg |-> m]
KeyError(k) == [type |-> "KeyError", msg |-> k]

MissingArgon2 == RuntimeError("argon2-cffi is required for the 'deep' scheme")
Inconsistent == ValueError("Inconsistent outputs: derivation not reliable. check coding")

Invocation(h, password, salt) == [hasher |-> h, password |-> password, salt |-> salt]

(***************************** the KDF libraries ***************************)
\* hashlib.pbkdf2_hmac and argon2.low_level.hash_secret_raw are library code.
\* What the script relies on is kept: the result is a function of the
\* algorithm, the secret, the salt and the cost parameters, and it has the
\* requested number of bytes.  The bytes themselves are a stand-in mixing.
RECURSIVE Digest(_)
Digest(bytes) ==
    IF bytes = <<>> THEN 1
    ELSE (Digest(SubSeq(bytes, 1, Len(bytes) - 1)) * 33 + bytes[Len(bytes)]) % 65521

KDF(algorithm, secret, salt, cost, len) ==
    LET k == (Digest(secret) * 131 + Digest(salt) * 31 + algorithm * 8191 + cost) % 65521
    IN  [i \in 1..len |-> (k + i * (2 * k + 7) + ((i * i) % 251)) % 256]

\* An unreliable primitive (the case generate_reliable_password exists for)
\* may hand back the right bytes or bytes that differ from them.
Corrupted(raw) == [raw EXCEPT ![1] = (@ + 1) % 256]
LibraryCall(raw) ==
    IF primitive = "deterministic" THEN {raw} ELSE {raw, Corrupted(raw)}

(***************************** the hashers *********************************)
\* (a PBKDF2 configured for 256 bytes)
pbkdf2_hasher_256(password, salt) ==
    {Outcome(Return(raw), <<Invocation("pbkdf2_hasher", password, salt)>>, <<>>, None) :
        raw \in LibraryCall(KDF(1, encode_utf8(password), salt, PBKDF2_ITERATIONS, 256))}

pbkdf2_hasher(password, salt) ==
    {Outcome(Return(raw), <<Invocation("pbkdf2_hasher", password, salt)>>, <<>>, None) :
        raw \in LibraryCall(KDF(1, encode_utf8(password), salt,
                                PBKDF2_ITERATIONS, PBKDF2_DKLEN))}

\* (a hasher that silently falls back to PBKDF2 when argon2-cffi is missing)
argon2_hasher_fallback(password, salt) ==
    IF hash_secret_raw = "None"
    THEN pbkdf2_hasher(password, salt)
    ELSE {Outcome(Return(raw), <<Invocation("argon2_hasher", password, salt)>>, <<>>, None) :
            raw \in LibraryCall(KDF(2, encode_utf8(password), salt,
                                    ARGON2_TIME_COST * ARGON2_MEMORY_COST * ARGON2_PARALLELISM,
                                    ARGON2_HASH_LEN))}

argon2_hasher(password, salt) ==
    IF hash_secret_raw = "None"
    THEN {Outcome(Raise(MissingArgon2),
                  <<Invocation("argon2_hasher", password, salt)>>, <<>>, None)}
    ELSE {Outcome(Return(raw), <<Invocation("argon2_hasher", password, salt)>>, <<>>, None) :
            raw \in LibraryCall(KDF(2, encode_utf8(password), salt,
                                    ARGON2_TIME_COST * ARGON2_MEMORY_COST * ARGON2_PARALLELISM,
                                    ARGON2_HASH_LEN))}

\* dispatch[scheme](password, salt); an unknown key raises KeyError.
dispatch(scheme, password, salt) ==
    CASE scheme = "interactive" -> pbkdf2_hasher(password, salt)
      [] scheme = "deep" -> argon2_hasher(password, salt)
      [] OTHER -> {Outcome(Raise(KeyError(scheme)), <<>>, <<>>, None)}

(***************************** the derivation ******************************)
\* (a derivation that draws a new salt once a hash has been generated)
derive_password_resalted(password, scheme, salt) ==
    LET fresh == IF prev = None THEN salt ELSE Corrupted(salt)
    IN  {IF h.kind = "raise" THEN h
         ELSE Outcome(Return(urlsafe_b64encode(fresh \o h.value)), h.calls, <<>>, None) :
            h \in dispatch(scheme, password, fresh)}

\* (a derivation that encodes raw || salt)
derive_password_raw_first(password, scheme, salt) ==
    {IF h.kind = "raise" THEN h
     ELSE Outcome(Return(urlsafe_b64encode(h.value \o salt)), h.calls, <<>>, None) :
        h \in dispatch(scheme, password, salt)}

derive_password(password, scheme, salt) ==
    {IF h.kind = "raise" THEN h
     ELSE Outcome(Return(urlsafe_b64encode(salt \o h.value)), h.calls, <<>>, None) :
        h \in dispatch(scheme, password, salt)}

\* The loop of generate_reliable_password over three derivations d[1..3]; an
\* exception leaves the loop at once.
RECURSIVE Collect(_, _, _, _)
Collect(d, i, log, outs) ==
    IF i > Len(d) THEN Outcome(Return(<<>>), log, outs, None)
    ELSE IF d[i].kind = "raise" THEN Outcome(d[i], log \o d[i].calls, outs, None)
    ELSE Collect(d, i + 1, log \o d[i].calls, Append(outs, d[i].value))

\* (a check that compares the first two candidates only)
generate_reliable_password_first_two(password, scheme) ==
    LET derived == derive_password(password, scheme, SALT)
        Check(c) ==
            IF c.kind = "raise" THEN c
            ELSE IF c.outputs[1] = c.outputs[2]
                 THEN Outcome(Return(c.outputs[1]), c.calls, c.outputs, None)
                 ELSE Outcome(Raise(Inconsistent), c.calls, c.outputs, None)
    IN  {Check(Collect(<<d1, d2, d3>>, 1, <<>>, <<>>)) :
            d1 \in derived, d2 \in derived, d3 \in derived}

generate_reliable_password(password, scheme) ==
    LET derived == derive_password(password, scheme, SALT)
        Check(c) ==
            IF c.kind = "raise" THEN c
            ELSE IF Cardinality({c.outputs[i] : i \in 1..Len(c.outputs)}) = 1
                 THEN Outcome(Return(c.outputs[1]), c.calls, c.outputs, None)
                 ELSE Outcome(Raise(Inconsistent), c.calls, c.outputs, None)
    IN  {Check(Collect(<<d1, d2, d3>>, 1, <<>>, <<>>)) :
            d1 \in derived, d2 \in derived, d3 \in derived}

\* Lines 100-101: length = SIZE_MAP[size]; full_pw or full_pw[:length].
size_application(text, size) ==
    IF size \notin DOMAIN SIZE_MAP THEN Raise(KeyError(size))
    ELSE IF SIZE_MAP[size] = None THEN Return(text)
    ELSE Return(Slice(text, Value(SIZE_MAP[size])))

generate_password_with_size(password, scheme, size) ==
    {IF r.kind = "raise" THEN r
     ELSE Outcome(size_application(r.value, size), r.calls, r.outputs, Some(r.value)) :
        r \in generate_reliable_password(password, scheme)}

(***************************** what the user may type ***********************)
\* -i on the command line: absent, empty, blank or a passphrase (argparse keeps
\* the text as it is).
ArgvInputs == {None} \cup {Some(p) : p \in {<<>>, <<" ">>, <<"a">>}}
\* An answer to "Select encryption scheme: " / "Select desired size: " after
\* .strip().lower(): a key of the table, or something else.
SchemeAnswers == DOMAIN HASH_SCHEMES \cup {"sha1"}
SizeAnswers == DOMAIN SIZE_MAP \cup {"tiny"}
\* An answer to "Generate another Hash? (y/N): " after .strip().lower().
RunAgainAnswers == {"y", "yes", "1", "n", "no", "0", "", "maybe"}

Line(kind, text) == [kind |-> kind, text |-> text]

\* `not args.input`: None and the empty string are falsy.
Falsy(o) == o = None \/ Value(o) = <<>>

\* (an except clause that names ValueError alone)
CaughtValueErrorOnly(e) == e.type = "ValueError"

\* `except Exception` catches every exception class the derivation raises.
Caught(e) == e.type \in {"RuntimeError", "ValueError", "KeyError"}

\* The history keeps a finished call only while the call now being prepared
\* repeats its passphrase and scheme.
Comparable(h, password, scheme) ==
    IF h # None /\ Value(h).password = password /\ Value(h).scheme = scheme
    THEN h ELSE None

(***************************** the script **********************************)
NoLocals ==
    /\ args_input = None
    /\ args_encryption = None
    /\ args_size = None
    /\ calls = <<>>
    /\ outputs = <<>>
    /\ full_pw = None
    /\ result = None
    /\ error = None
    /\ stdout = Line("none", "")
    /\ prev = None

Start ==
    /\ hash_secret_raw \in {"argon2", "None"}
    /\ pc = "main"
    /\ NoLocals

\* The script as it is run, on libraries that compute what they document.
Init == Start /\ primitive = "deterministic" /\ argv_input \in ArgvInputs

\* The script started without -i, on libraries that may also misbehave.
InitUnreliable == Start /\ primitive \in {"deterministic", "unreliable"} /\ argv_input = None

\* The same where both errors of the environment occur: argon2-cffi is
\* missing and the libraries may misbehave.
InitBothErrors ==
    Start /\ primitive = "unreliable" /\ hash_secret_raw = "None" /\ argv_input = None

\* main(), lines 127-142 up to the first prompt: parse_args() reads -i; a
\* missing or empty value is asked for, a blank one is asked for again.
MainParseArgs ==
    /\ pc = "main"
    /\ args_input' = argv_input
    /\ pc' = IF Falsy(argv_input) \/ strip(Value(argv_input)) = <<>>
             THEN "input" ELSE "encryption"
    /\ UNCHANGED <<hash_secret_raw, primitive, argv_input, args_encryption, args_size,
                   calls, outputs, full_pw, result, error, stdout, prev>>

\* input("Enter your base password/passphrase..."), lines 139-142: the loop
\* asks again while the text is blank.
MainInput(text) ==
    /\ pc = "input"
    /\ args_input' = Some(text)
    /\ pc' = IF strip(text) = <<>> THEN "input" ELSE "encryption"
    /\ UNCHANGED <<hash_secret_raw, primitive, argv_input, args_encryption, args_size,
                   calls, outputs, full_pw, result, error, stdout, prev>>

\* lines 145-155 (-e/--encryption is taken as typed at the prompt); an answer
\* that is no key of HASH_SCHEMES is asked for again.
MainEncryption(choice) ==
    /\ pc = "encryption"
    /\ IF choice \in DOMAIN HASH_SCHEMES
       THEN /\ args_encryption' = Some(choice)
            /\ prev' = Comparable(prev, Value(args_input), choice)
            /\ pc' = "size"
       ELSE UNCHANGED <<args_encryption, prev, pc>>
    /\ UNCHANGED <<hash_secret_raw, primitive, argv_input, args_input, args_size,
                   calls, outputs, full_pw, result, error, stdout>>

\* lines 158-170 (-s/--size is taken as typed at the prompt); an answer that
\* is no key of SIZE_MAP is asked for again.
MainSize(choice) ==
    /\ pc = "size"
    /\ IF choice \in DOMAIN SIZE_MAP
       THEN /\ args_size' = Some(choice)
            /\ pc' = "try"
       ELSE UNCHANGED <<args_size, pc>>
    /\ UNCHANGED <<hash_secret_raw, primitive, argv_input, args_input, args_encryption,
                   calls, outputs, full_pw, result, error, stdout, prev>>

\* What a call of generate_password_with_size leaves behind.
Derivation(r) ==
    /\ calls' = r.calls
    /\ outputs' = r.outputs
    /\ full_pw' = r.full_pw
    /\ result' = IF r.kind = "return" THEN Some(r.value) ELSE None
    /\ error' = r.exc

\* lines 172-173: the call inside the try block returns or raises.
MainTry ==
    /\ pc = "try"
    /\ \E r \in generate_password_with_size(Value(args_input), Value(args_encryption),
                                            Value(args_size)) : Derivation(r)
    /\ pc' = "report"
    /\ UNCHANGED <<hash_secret_raw, primitive, argv_input, args_input, args_encryption,
                   args_size, stdout, prev>>

\* lines 174-178: the result is printed (and copied); an exception that the
\* except clause catches is printed; one it does not catch ends the process
\* with a traceback.  Either way main() is over and the loop asks.
MainReport ==
    /\ pc = "report"
    /\ IF error = None
       THEN /\ stdout' = Line("derived", Value(args_encryption))
            /\ pc' = "ask_run_again"
       ELSE IF Caught(Value(error))
       THEN /\ stdout' = Line("error", Value(error).msg)
            /\ pc' = "ask_run_again"
       ELSE /\ stdout' = Line("traceback", Value(error).msg)
            /\ pc' = "aborted"
    /\ UNCHANGED <<hash_secret_raw, primitive, argv_input, args_input, args_encryption,
                   args_size, calls, outputs, full_pw, result, error, prev>>

\* ask_run_again(), lines 114-124, and the loop of lines 182-186.
AskRunAgain(choice) ==
    /\ pc = "ask_run_again"
    /\ IF choice \in {"y", "yes", "1"}
       THEN /\ pc' = "main"
            /\ prev' = IF result # None
                       THEN Some([password |-> Value(args_input),
                                  scheme |-> Value(args_encryption),
                                  size |-> Value(args_size),
                                  value |-> Value(result)])
                       ELSE prev
            /\ args_input' = None
            /\ args_encryption' = None
            /\ args_size' = None
            /\ calls' = <<>>
            /\ outputs' = <<>>
            /\ full_pw' = None
            /\ result' = None
            /\ error' = None
            /\ stdout' = Line("none", "")
       ELSE IF choice \in {"n", "no", "0", ""}
       THEN /\ pc' = "exited"
            /\ stdout' = Line("exiting", "Exiting")
            /\ UNCHANGED <<args_input, args_encryption, args_size, calls, outputs,
                           full_pw, result, error, prev>>
       ELSE UNCHANGED <<pc, stdout, args_input, args_encryption, args_size, calls,
                        outputs, full_pw, result, error, prev>>
    /\ UNCHANGED <<hash_secret_raw, primitive, argv_input>>

Next ==
    \/ MainParseArgs
    \/ \E text \in Passphrases : MainInput(text)
    \/ \E choice \in SchemeAnswers : MainEncryption(choice)
    \/ \E choice \in SizeAnswers : MainSize(choice)
    \/ MainTry
    \/ MainReport
    \/ \E choice \in RunAgainAnswers : AskRunAgain(choice)

Spec == Init /\ [][Next]_vars
SpecUnreliable == InitUnreliable /\ [][Next]_vars
\* Once the call in the try block has returned or raised, nothing stands
\* between main() and its end: lines 174-178 wait for no input.
SpecLive == InitBothErrors /\ [][Next]_vars /\ WF_vars(MainReport)

(***************************** the functions called directly ***************)
\* generate_password_with_size(password, scheme, size) called by an importer
\* of the module, with any text, scheme name and size name.
InitCall ==
    /\ hash_secret_raw \in {"argon2", "None"}
    /\ primitive = "deterministic"
    /\ argv_input = None
    /\ pc = "call"
    /\ args_input \in {Some(p) : p \in Passphrases}
    /\ args_encryption \in {Some(s) : s \in SchemeAnswers}
    /\ args_size \in {Some(z) : z \in SizeAnswers}
    /\ calls = <<>>
    /\ outputs = <<>>
    /\ full_pw = None
    /\ result = None
    /\ error = None
    /\ stdout = Line("none", "")
    /\ prev = None

Call ==
    /\ pc = "call"
    /\ \E r \in generate_password_with_size(Value(args_input), Value(args_encryption),
                                            Value(args_size)) :
        /\ Derivation(r)
        /\ pc' = IF r.kind = "return" THEN "returned" ELSE "raised"
    /\ UNCHANGED <<hash_secret_raw, primitive, argv_input, args_input, args_encryption,
                   args_size, stdout, prev>>

SpecCall == InitCall /\ [][Call]_vars

\* Lines 100-101 on their own, on any text as full_pw.
Texts == {[i \in 1..n |-> "A"] : n \in 0..MaxTextLen}

InitSizeApplication ==
    /\ hash_secret_raw = "argon2"
    /\ primitive = "deterministic"
    /\ argv_input = None
    /\ pc = "size_application"
    /\ args_input = None
    /\ args_encryption = None
    /\ args_size \in {Some(z) : z \in DOMAIN SIZE_MAP}
    /\ calls = <<>>
    /\ outputs = <<>>
    /\ full_pw \in {Some(t) : t \in Texts}
    /\ result = None
    /\ error = None
    /\ stdout = Line("none", "")
    /\ prev = None

SizeApplication ==
    /\ pc = "size_application"
    /\ LET r == size_application(Value(full_pw), Value(args_size))
       IN  /\ result' = IF r.kind = "return" THEN Some(r.value) ELSE None
           /\ error' = r.exc
           /\ pc' = IF r.kind = "return" THEN "returned" ELSE "raised"
    /\ UNCHANGED <<hash_secret_raw, primitive, argv_input, args_input, args_encryption,
                   args_size, calls, outputs, full_pw, stdout, prev>>

SpecSizeApplication == InitSizeApplication /\ [][SizeApplication]_vars


(***************************** the claims **********************************)
\* The derivation of the running main() has ended, one way or the other.
Done == pc \in {"report", "ask_run_again", "exited", "aborted"}
Password == Value(args_input)
Scheme == Value(args_encryption)
Size == Value(args_size)

SelectedHasher == IF Scheme = "interactive" THEN "pbkdf2_hasher" ELSE "argon2_hasher"
Identical(outs) == Len(outs) = 3 /\ outs[1] = outs[2] /\ outs[2] = outs[3]
FirstChars(text, n) == [i \in 1..n |-> text[i]]

\* The size table as the specification gives it.
SizeTable ==
    [z \in {"short", "small", "medium", "big", "long", "huge"} |->
        CASE z = "short" -> 16 [] z = "small" -> 32 [] z = "medium" -> 64
          [] z = "big" -> 128 [] z = "long" -> 236 [] z = "huge" -> 472]
SizeOrder == <<"short", "small", "medium", "big", "long", "huge", "full">>
Rank(z) == CHOOSE i \in 1..7 : SizeOrder[i] = z

\* What the three runs must look like when every run gets to the comparison.
ThreeRunsCompared ==
    /\ Len(calls) = 3
    /\ Len(outputs) = 3
    /\ \A i \in 1..3 : calls[i] = Invocation(SelectedHasher, Password, SALT)
    /\ IF Identical(outputs)
       THEN full_pw = Some(outputs[1]) /\ error = None /\ result # None
       ELSE error = Some(Inconsistent) /\ result = None /\ full_pw = None

\* C1 as stated: for any passphrase and scheme the selected hasher is invoked
\* exactly three times with the same passphrase and the fixed SALT; three
\* identical candidates are returned, anything else fails with the
\* inconsistency error and returns no string.
C1_AlwaysThreeRuns == Done => ThreeRunsCompared

\* C1 as amended: the same, unless the selected hasher itself raises (scheme
\* deep without argon2-cffi): then the first invocation is the only one, made
\* with the passphrase and SALT, and its error leaves the derivation with no
\* string returned.
C1_ReliableDerivation ==
    Done =>
        IF Scheme = "deep" /\ hash_secret_raw = "None"
        THEN /\ calls = <<Invocation("argon2_hasher", Password, SALT)>>
             /\ outputs = <<>>
             /\ error = Some(MissingArgon2)
             /\ result = None
             /\ full_pw = None
        ELSE ThreeRunsCompared

\* Three runs were made and they disagreed.
C1_Witness ==
    /\ pc = "ask_run_again"
    /\ Len(outputs) = 3
    /\ outputs[1] = outputs[2]
    /\ outputs[2] # outputs[3]
    /\ error = Some(Inconsistent)

\* C2: a size other than full returns the first SizeTable[size] characters of
\* the full string (of this call, and of a call with size full for the same
\* passphrase and scheme); size full returns the reliable string unchanged.
C2_Truncation ==
    (Done /\ result # None) =>
        /\ Size = "full" => result = full_pw
        /\ Size # "full" =>
            /\ Len(Value(result)) = SizeTable[Size]
            /\ Value(result) = FirstChars(Value(full_pw), SizeTable[Size])
        /\ (prev # None /\ Size # "full" /\ Value(prev).size = "full") =>
            Value(result) = FirstChars(Value(prev).value, SizeTable[Size])
        /\ (prev # None /\ Size = "full" /\ Value(prev).size # "full") =>
            Value(prev).value = FirstChars(Value(result), SizeTable[Value(prev).size])

\* A call with size long that follows a call with size full.
C2_Witness ==
    /\ pc = "ask_run_again"
    /\ result # None
    /\ Size = "long"
    /\ prev # None
    /\ Value(prev).size = "full"
    /\ Value(prev).password = Password

\* C3: a call with a passphrase that is empty after trimming fails, and no
\* hasher is invoked with it.
C3_EmptyPassphraseRejected ==
    (pc \in {"returned", "raised"} /\ strip(Password) = <<>>) =>
        (pc = "raised" /\ result = None /\ calls = <<>>)

C5_MissingDependency ==
    (Done /\ Scheme = "deep") =>
        IF hash_secret_raw = "None"
        THEN /\ result = None
             /\ error # None
             /\ Value(error).type # Inconsistent.type
             /\ Value(error).msg # Inconsistent.msg
             /\ pc # "aborted"
             /\ pc = "ask_run_again" => stdout = Line("error", MissingArgon2.msg)
        ELSE /\ result # None
             /\ error = None
             /\ Identical(outputs)

\* derive("a", deep, full) where argon2-cffi is missing.
C5_Witness ==
    /\ pc = "ask_run_again"
    /\ hash_secret_raw = "None"
    /\ Scheme = "deep"
    /\ Size = "full"
    /\ error = Some(MissingArgon2)
    /\ stdout.kind = "error"

\* C6: a returned string has min(SizeTable[size], full_length) characters, or
\* full_length for size full, full_length being the length of the encoding of
\* the 17 salt bytes and the 512 raw bytes; and of two calls for the same
\* passphrase and scheme the one with the smaller size is not the longer.
C6_OutputLength ==
    (Done /\ result # None) =>
        LET full_length == 4 * ((17 + 512 + 2) \div 3)
        IN  /\ Len(Value(full_pw)) = full_length
            /\ Len(Value(result)) =
                  IF Size = "full" THEN full_length ELSE Min(SizeTable[Size], full_length)
            /\ (prev # None /\ Rank(Value(prev).size) <= Rank(Size)) =>
                  Len(Value(prev).value) <= Len(Value(result))
            /\ (prev # None /\ Rank(Size) <= Rank(Value(prev).size)) =>
                  Len(Value(result)) <= Len(Value(prev).value)

\* A call with size full (708 characters) after one with size huge (472).
C6_Witness ==
    /\ pc = "ask_run_again"
    /\ result # None
    /\ Size = "full"
    /\ Len(Value(result)) = 708
    /\ prev # None
    /\ Value(prev).size = "huge"
    /\ Len(Value(prev).value) = 472

\* C7: no error of the derivation ends the process; main reports it and the
\* run-again prompt is always reached.
C7_Recoverable ==
    /\ [](pc # "aborted")
    /\ []((pc = "ask_run_again" /\ error # None) => stdout = Line("error", Value(error).msg))
    /\ (pc = "report" /\ error # None) ~> (pc = "ask_run_again" /\ error # None)

\* The inconsistency error was reported and the prompt is up.
C7_Witness ==
    /\ pc = "ask_run_again"
    /\ error = Some(Inconsistent)
    /\ stdout = Line("error", Inconsistent.msg)

C9_Configuration ==
    /\ \A i \in 1..Len(outputs) : \A z \in DOMAIN SIZE_MAP :
          SIZE_MAP[z] # None => Value(SIZE_MAP[z]) <= Len(outputs[i])
    /\ (Done /\ result # None /\ SIZE_MAP[Size] # None) =>
          Value(SIZE_MAP[Size]) <= Len(Value(full_pw))
    /\ \A i \in 1..5 : Value(SIZE_MAP[SizeOrder[i]]) < Value(SIZE_MAP[SizeOrder[i + 1]])
    /\ Value(SIZE_MAP["huge"]) = 472

\* Size huge under scheme deep: 472 characters out of a longer full string.
C9_Witness ==
    /\ pc = "ask_run_again"
    /\ Scheme = "deep"
    /\ Size = "huge"
    /\ result # None
    /\ Len(Value(result)) = 472
    /\ Len(Value(full_pw)) > 472

\* The characters that encode salt bytes alone: the first 22 of
\* base64.urlsafe_b64encode(b'Something_[]_ASDF') = "U29tZXRoaW5nX1tdX0FTREY=".
SaltChars ==
    <<"U", "2", "9", "t", "Z", "X", "R", "o", "a", "W", "5", "n", "X", "1", "t", "d",
      "X", "0", "F", "T", "R", "E">>

\* C10: the 16 characters of size short are the encoding of the first 12 salt
\* bytes, whatever the passphrase and the scheme; in any result the first 22
\* characters come from the salt alone.
C10_ShortIsSaltOnly ==
    (Done /\ result # None) =>
        /\ Size = "short" => Value(result) = FirstChars(SaltChars, 16)
        /\ \A i \in 1..Min(22, Len(Value(result))) : Value(result)[i] = SaltChars[i]

\* Size short under scheme deep for the passphrase "aa": "U29tZXRoaW5nX1td".
C10_Witness ==
    /\ pc = "ask_run_again"
    /\ Scheme = "deep"
    /\ Size = "short"
    /\ Password = <<"a", "a">>
    /\ result = Some(<<"U", "2", "9", "t", "Z", "X", "R", "o",
                       "a", "W", "5", "n", "X", "1", "t", "d">>)

====
